---------------------------- MODULE Spec2Model ----------------------------
(***************************************************************************)
(* A model of the article, tag and comment services of the blog backend:   *)
(*   src/src/articles/articles.service.ts  (ArticlesService)               *)
(*   src/src/comments/comments.service.ts  (CommentsService, Tag)          *)
(* Strings are sequences of one-character strings, so that the slug        *)
(* generator is computed character by character as the code computes it.   *)
(***************************************************************************)
EXTENDS Integers, Sequences, FiniteSets, TLC

(***************************************************************************)
(* Characters                                                              *)
(***************************************************************************)
Upper ==
  <<"A", "B", "C", "D", "E", "F", "G", "H", "I", "J", "K", "L", "M",
    "N", "O", "P", "Q", "R", "S", "T", "U", "V", "W", "X", "Y", "Z">>

Lower ==
  <<"a", "b", "c", "d", "e", "f", "g", "h", "i", "j", "k", "l", "m",
    "n", "o", "p", "q", "r", "s", "t", "u", "v", "w", "x", "y", "z">>

Digits == {"0", "1", "2", "3", "4", "5", "6", "7", "8", "9"}

Range(s) == {s[i] : i \in DOMAIN s}

IsUpper(ch) == \E i \in DOMAIN Upper : Upper[i] = ch

IsLowerAlnum(ch) == ch \in Range(Lower) \cup Digits

\* [A-Za-z0-9]
IsAlnum(ch) == IsUpper(ch) \/ IsLowerAlnum(ch)

\* \s
IsSpace(ch) == ch \in {" ", "\t"}

\* String.prototype.toLowerCase on one character
toLowerCase(ch) ==
  IF IsUpper(ch) THEN Lower[CHOOSE i \in DOMAIN Upper : Upper[i] = ch] ELSE ch

(***************************************************************************)
(* The slugify package as ArticlesService.slugify calls it:                *)
(*   slugify(title, {lower: true, strict: true, remove: /[*+~.()'"!:@]/g}) *)
(* replacement is the default "-" and trim the default true.               *)
(***************************************************************************)
Replacement == "-"

\* options.remove: /[*+~.()'"!:@]/g
RemoveSet == {"*", "+", "~", ".", "(", ")", "'", "\"", "!", ":", "@"}

\* the entries of the package's character map that the model's titles use
charMap(ch) ==
  CASE ch = "&" -> <<"a", "n", "d">>
    [] ch = "$" -> <<"d", "o", "l", "l", "a", "r">>
    [] ch = "%" -> <<"p", "e", "r", "c", "e", "n", "t">>
    [] OTHER -> <<ch>>

\* one character of the reduce: map it, turn the replacement into a space,
\* drop what options.remove matches
appendChar(ch) ==
  LET mapped == charMap(ch)
      spaced == IF mapped = <<Replacement>> THEN <<" ">> ELSE mapped
  IN  SelectSeq(spaced, LAMBDA x : x \notin RemoveSet)

RECURSIVE mapChars(_)
mapChars(s) ==
  IF s = <<>> THEN <<>> ELSE appendChar(Head(s)) \o mapChars(Tail(s))

\* strict: slug.replace(/[^A-Za-z0-9\s]/g, '')
strictFilter(s) == SelectSeq(s, LAMBDA x : IsAlnum(x) \/ IsSpace(x))

RECURSIVE trimStart(_)
trimStart(s) ==
  IF s # <<>> /\ IsSpace(Head(s)) THEN trimStart(Tail(s)) ELSE s

RECURSIVE trimEnd(_)
trimEnd(s) ==
  IF s # <<>> /\ IsSpace(s[Len(s)])
    THEN trimEnd(SubSeq(s, 1, Len(s) - 1))
    ELSE s

trim(s) == trimEnd(trimStart(s))

\* slug.replace(/\s+/g, replacement)
RECURSIVE replaceSpaces(_)
replaceSpaces(s) ==
  IF s = <<>> THEN <<>>
  ELSE IF IsSpace(Head(s))
    THEN <<Replacement>> \o replaceSpaces(trimStart(s))
    ELSE <<Head(s)>> \o replaceSpaces(Tail(s))

lowerAll(s) == [i \in DOMAIN s |-> toLowerCase(s[i])]

\* lower: true left out
baseSlug_NoLower(title) == replaceSpaces(trim(strictFilter(mapChars(title))))

baseSlug(title) == lowerAll(replaceSpaces(trim(strictFilter(mapChars(title)))))

(***************************************************************************)
(* ArticlesService.generateUniqueSuffix                                    *)
(***************************************************************************)
charset ==
  <<"u", "s", "e", "a", "n", "d", "o", "m", "-", "2", "6", "T", "1", "9",
    "8", "3", "4", "0", "P", "X", "7", "5", "p", "x", "J", "A", "C", "K",
    "V", "E", "R", "Y", "M", "I", "N", "D", "B", "U", "S", "H", "W", "O",
    "L", "F", "_", "G", "Q", "Z", "b", "f", "g", "h", "j", "k", "l", "q",
    "v", "w", "y", "z", "r", "i", "c", "t">>

SuffixLength == 11

IndexMask == 63

\* the values of a Uint8Array element
ByteValues == 0 .. 255

\* JavaScript's a & b on non-negative integers
RECURSIVE BitAnd(_, _)
BitAnd(a, b) ==
  IF a = 0 \/ b = 0 THEN 0
  ELSE (a % 2) * (b % 2) + 2 * BitAnd(a \div 2, b \div 2)

\* randomValues[i] & 63: the 0-based index into charset
charsetIndex(byte) == BitAnd(byte, IndexMask)

\* charset[randomValues[i] & 63]; a JavaScript string is indexed from 0
suffixChar(byte) == charset[charsetIndex(byte) + 1]

\* the loop of generateUniqueSuffix over the bytes crypto.getRandomValues gave
generateUniqueSuffix(randomValues) ==
  [i \in 1 .. SuffixLength |-> suffixChar(randomValues[i])]

\* ArticlesService.slugify: `${baseSlug}-${uniqueSuffix}`
slugify(title, randomValues) ==
  baseSlug(title) \o <<"-">> \o generateUniqueSuffix(randomValues)


(***************************************************************************)
(* radash helpers used by createArticleWithTransaction                     *)
(***************************************************************************)
\* unique(array): the first occurrence of every item, in order
RECURSIVE unique(_)
unique(list) ==
  IF list = <<>> THEN <<>>
  ELSE LET init == unique(SubSeq(list, 1, Len(list) - 1))
           x == list[Len(list)]
       IN  IF x \in Range(init) THEN init ELSE Append(init, x)

\* diff(root, other): the items of root that are not in other, in order
diff(root, other) == SelectSeq(root, LAMBDA x : x \notin Range(other))

(***************************************************************************)
(* Bounds and input sets                                                   *)
(***************************************************************************)
\* create calls started in one behaviour
MaxCreates == 2

\* longest tagList of a CreateArticleDto
MaxTagListLen == 2

\* comments created in one behaviour
MaxComments == 1

\* longest title given to slugify in SpecSlug
MaxTitleLen == 3

Clients == {"c1", "c2"}

Users == {1, 2}

TagNames == {"x", "y"}

\* "Hi!" and "Go"
ArticleTitles == {<<"H", "i", "!">>, <<"G", "o">>}

\* the title of an UpdateArticleDto that has none (undefined)
Absent == <<"undefined">>

\* null where a row is expected
Null == [id |-> 0]

SeqsUpTo(S, n) == UNION {[1 .. k -> S] : k \in 0 .. n}

TagLists == SeqsUpTo(TagNames, MaxTagListLen)

\* what crypto.getRandomValues may return inside create and update
RandomDraws == {[i \in 1 .. SuffixLength |-> b] : b \in {64, 75}}

\* a slug no article has
UnknownSlug == <<"n", "o">>

VARIABLES
  tagRows,        \* the tag table: rows [id, name]
  articleRows,    \* the article table: rows [id, title, slug, author_id, tagList]
  commentRows,    \* the comment table: rows [id, article_id, author_id]
  nextTagId,      \* id generators of the three tables
  nextArticleId,
  nextCommentId,
  creates,        \* create calls started so far
  cr,             \* per client: the create call in flight and its locals
  last            \* the last completed call of the other operations

vars ==
  <<tagRows, articleRows, commentRows, nextTagId, nextArticleId,
    nextCommentId, creates, cr, last>>

\* the rows of S as an array, by id
RECURSIVE RowsById(_)
RowsById(S) ==
  IF S = {} THEN <<>>
  ELSE LET m == CHOOSE x \in S : \A y \in S : x.id <= y.id
       IN  <<m>> \o RowsById(S \ {m})

Names(rows) == {t.name : t \in rows}

IdleCall ==
  [pc |-> "idle", dto |-> Null, author_id |-> 0, inTx |-> FALSE,
   tags |-> <<>>, newTagNames |-> <<>>, newTags |-> <<>>, article |-> Null,
   txTags |-> {}, txArticles |-> {}]

InFlight == {"find", "createMany", "persist", "refetch"}

Init ==
  /\ tagRows = {}
  /\ articleRows = {}
  /\ commentRows = {}
  /\ nextTagId = 1
  /\ nextArticleId = 1
  /\ nextCommentId = 1
  /\ creates = 0
  /\ cr = [c \in Clients |-> IdleCall]
  /\ last = [op |-> "none"]

(***************************************************************************)
(* The transaction manager and the repositories, as the calls in the       *)
(* services use them.  A transaction's writes are held apart from the      *)
(* tables until it commits, and are dropped when it rolls back; a read     *)
(* inside a transaction sees the tables and its own writes.                *)
(***************************************************************************)
\* runInTransaction(fn): the call starts with an empty write set
runInTransaction(call) ==
  [call EXCEPT !.inTx = TRUE, !.txTags = {}, !.txArticles = {}]

visibleTags(c) == tagRows \cup cr[c].txTags

visibleArticles(c) == articleRows \cup cr[c].txArticles

\* tagsService.findByNames(names)
findByNames(c, names) ==
  RowsById({t \in visibleTags(c) : t.name \in Range(names)})

\* tagsService.toCreateTagDtos(names)
toCreateTagDtos(names) == [i \in DOMAIN names |-> [name |-> names[i]]]

\* the rows tagsService.createMany(dtos) inserts and returns
createMany(dtos) ==
  [i \in DOMAIN dtos |-> [id |-> nextTagId + i - 1, name |-> dtos[i].name]]

\* a tag table without the constraint
tagNameViolation_Off(dtos) == FALSE

\* the tag table's uniqueness constraint on name, enforced at insertion
tagNameViolation(dtos) ==
  \/ \E i \in DOMAIN dtos : dtos[i].name \in Names(tagRows)
  \/ \E i, j \in DOMAIN dtos : i # j /\ dtos[i].name = dtos[j].name

\* an insertion waits for a transaction holding an uncommitted row of the name
tagNameLocked(c, dtos) ==
  \E d \in Clients \ {c} :
    \E i \in DOMAIN dtos : dtos[i].name \in Names(cr[d].txTags)

\* the transaction ends by rollback: its writes are dropped
rollback(call) ==
  [call EXCEPT !.pc = "failed", !.inTx = FALSE, !.txTags = {}, !.txArticles = {}]

(***************************************************************************)
(* ArticlesService.create, one action per await of                         *)
(* createArticleWithTransaction                                            *)
(***************************************************************************)
CreateArticleDtos == [title : ArticleTitles, tagList : TagLists]

\* create without runInTransaction: the repositories write to the tables
create_NoTransaction(c, createArticleDto, userJwtPayload) ==
  /\ cr[c].pc \in {"idle", "done", "failed"}
  /\ creates < MaxCreates
  /\ creates' = creates + 1
  /\ cr' = [cr EXCEPT ![c] =
       [IdleCall EXCEPT
          !.pc = IF Len(createArticleDto.tagList) > 0 THEN "find" ELSE "persist",
          !.dto = createArticleDto,
          !.author_id = userJwtPayload.id]]
  /\ UNCHANGED <<tagRows, articleRows, commentRows, nextTagId, nextArticleId,
                 nextCommentId, last>>

\* create: the call enters runInTransaction and createArticleWithTransaction
\* builds clonedPayload and tests the tagList
create(c, createArticleDto, userJwtPayload) ==
  /\ cr[c].pc \in {"idle", "done", "failed"}
  /\ creates < MaxCreates
  /\ creates' = creates + 1
  /\ cr' = [cr EXCEPT ![c] =
       runInTransaction(
         [IdleCall EXCEPT
            !.pc = IF Len(createArticleDto.tagList) > 0 THEN "find" ELSE "persist",
            !.dto = createArticleDto,
            !.author_id = userJwtPayload.id])]
  /\ UNCHANGED <<tagRows, articleRows, commentRows, nextTagId, nextArticleId,
                 nextCommentId, last>>

\* the arguments of diff exchanged
newTagNamesOf_Swapped(uniqueTagList, tags) ==
  diff([i \in DOMAIN tags |-> tags[i].name], uniqueTagList)

\* diff(uniqueTagList, tags?.map((tag) => tag.name) || [])
newTagNamesOf(uniqueTagList, tags) ==
  diff(uniqueTagList, [i \in DOMAIN tags |-> tags[i].name])

\* uniqueTagList = unique(tagList); tags = await findByNames(uniqueTagList);
\* newTagNames = diff(...)
FindTags(c) ==
  /\ cr[c].pc = "find"
  /\ LET uniqueTagList == unique(cr[c].dto.tagList)
         tags == findByNames(c, uniqueTagList)
         newTagNames == newTagNamesOf(uniqueTagList, tags)
     IN  cr' = [cr EXCEPT ![c].tags = tags,
                          ![c].newTagNames = newTagNames,
                          ![c].pc = IF Len(newTagNames) > 0
                                      THEN "createMany" ELSE "persist"]
  /\ UNCHANGED <<tagRows, articleRows, commentRows, nextTagId, nextArticleId,
                 nextCommentId, creates, last>>

\* tags = newTags: the tags that were found are dropped
mergeTags_DropsFound(tags, newTags) == newTags

\* tags = [...(tags || []), ...newTags]
mergeTags(tags, newTags) == tags \o newTags

\* newTags = await createMany(toCreateTagDtos(newTagNames)); a violation of
\* the name constraint is thrown out of the transaction, which rolls back
CreateTags(c) ==
  /\ cr[c].pc = "createMany"
  /\ LET dtos == toCreateTagDtos(cr[c].newTagNames)
         newTags == createMany(dtos)
     IN  /\ ~tagNameLocked(c, dtos)
         /\ IF tagNameViolation(dtos)
              THEN /\ cr' = [cr EXCEPT ![c] = rollback(cr[c])]
                   /\ UNCHANGED <<tagRows, nextTagId>>
              ELSE /\ nextTagId' = nextTagId + Len(dtos)
                   /\ IF cr[c].inTx
                        THEN /\ cr' = [cr EXCEPT
                                  ![c].txTags = @ \cup Range(newTags),
                                  ![c].newTags = newTags,
                                  ![c].tags = mergeTags(cr[c].tags, newTags),
                                  ![c].pc = "persist"]
                             /\ UNCHANGED tagRows
                        ELSE /\ tagRows' = tagRows \cup Range(newTags)
                             /\ cr' = [cr EXCEPT
                                  ![c].newTags = newTags,
                                  ![c].tags = mergeTags(cr[c].tags, newTags),
                                  ![c].pc = "persist"]
  /\ UNCHANGED <<articleRows, commentRows, nextArticleId, nextCommentId,
                 creates, last>>

\* articlePayload = {...clonedPayload, tagList: tags, slug: slugify(title)}
articlePayload(call, randomValues) ==
  [title |-> call.dto.title,
   author_id |-> call.author_id,
   tagList |-> call.tags,
   slug |-> slugify(call.dto.title, randomValues)]

\* the row articleRepository.create(payload) inserts and returns
articleRow(id, payload) ==
  [id |-> id, title |-> payload.title, slug |-> payload.slug,
   author_id |-> payload.author_id, tagList |-> payload.tagList]

\* article = await articleRepository.create(articlePayload)
PersistArticle(c, randomValues) ==
  /\ cr[c].pc = "persist"
  /\ LET article == articleRow(nextArticleId,
                                 articlePayload(cr[c], randomValues))
     IN  IF cr[c].inTx
           THEN /\ cr' = [cr EXCEPT ![c].txArticles = @ \cup {article},
                                    ![c].article = article,
                                    ![c].pc = "refetch"]
                /\ UNCHANGED articleRows
           ELSE /\ articleRows' = articleRows \cup {article}
                /\ cr' = [cr EXCEPT ![c].article = article,
                                    ![c].pc = "refetch"]
  /\ nextArticleId' = nextArticleId + 1
  /\ UNCHANGED <<tagRows, commentRows, nextTagId, nextCommentId, creates, last>>

\* articleRepository.findByIdWithRelations(id) as the call c sees the table
findByIdWithRelations(c, id) ==
  IF \E a \in visibleArticles(c) : a.id = id
    THEN CHOOSE a \in visibleArticles(c) : a.id = id
    ELSE Null

\* return await validateAndFetchArticleWithRelationsById(article?.id); the
\* callback returns and the transaction commits, or NotFound rolls it back
RefetchAndCommit(c) ==
  /\ cr[c].pc = "refetch"
  /\ LET article == findByIdWithRelations(c, cr[c].article.id)
     IN  IF article = Null
           THEN /\ cr' = [cr EXCEPT ![c] = rollback(cr[c])]
                /\ UNCHANGED <<tagRows, articleRows>>
           ELSE /\ tagRows' = tagRows \cup cr[c].txTags
                /\ articleRows' = articleRows \cup cr[c].txArticles
                /\ cr' = [cr EXCEPT ![c].pc = "done",
                                    ![c].article = article,
                                    ![c].inTx = FALSE,
                                    ![c].txTags = {},
                                    ![c].txArticles = {}]
  /\ UNCHANGED <<commentRows, nextTagId, nextArticleId, nextCommentId,
                 creates, last>>

\* a repository call of the create in flight rejects (the storage fails):
\* the error leaves runInTransaction, which rolls back
FailCreate(c) ==
  /\ cr[c].pc \in InFlight
  /\ cr' = [cr EXCEPT ![c] = rollback(cr[c])]
  /\ UNCHANGED <<tagRows, articleRows, commentRows, nextTagId, nextArticleId,
                 nextCommentId, creates, last>>

(***************************************************************************)
(* The other operations of ArticlesService.  Each runs outside any         *)
(* transaction and reads the tables; its result is recorded in last.       *)
(***************************************************************************)
ArticleIds == 1 .. MaxCreates

CommentIds == 1 .. MaxComments

\* a title, the empty string, or none
UpdateTitles == ArticleTitles \cup {<<>>, Absent}

\* articleRepository.findById(id) and findByIdWithRelations(id) on the table
findById(id) ==
  IF \E a \in articleRows : a.id = id
    THEN CHOOSE a \in articleRows : a.id = id
    ELSE Null

\* the rows articleRepository.findBySlug(slug) may return
findBySlug(slug) ==
  IF \E a \in articleRows : a.slug = slug
    THEN {a \in articleRows : a.slug = slug}
    ELSE {Null}

SlugInputs == {a.slug : a \in articleRows} \cup {UnknownSlug}

\* findOne(id): return this.articleRepository.findByIdWithRelations(id)
findOneResult(id) ==
  LET article == findById(id)
  IN  IF article = Null
        THEN [op |-> "findOne", id |-> id, outcome |-> "null"]
        ELSE [op |-> "findOne", id |-> id, outcome |-> "article"]

findOne(id) ==
  /\ last' = findOneResult(id)
  /\ UNCHANGED <<tagRows, articleRows, commentRows, nextTagId, nextArticleId,
                 nextCommentId, creates, cr>>

\* validateAndFetchArticleBySlug(slug): NotFound unless findBySlug gave a row
validateAndFetchArticleBySlugResult(slug, article) ==
  IF article = Null
    THEN [op |-> "validateAndFetchArticleBySlug", slug |-> slug,
          outcome |-> "NotFound"]
    ELSE [op |-> "validateAndFetchArticleBySlug", slug |-> slug,
          outcome |-> "article"]

validateAndFetchArticleBySlug(slug) ==
  /\ \E article \in findBySlug(slug) :
       last' = validateAndFetchArticleBySlugResult(slug, article)
  /\ UNCHANGED <<tagRows, articleRows, commentRows, nextTagId, nextArticleId,
                 nextCommentId, creates, cr>>

\* the comparison with the article's title left out
slugIsRegenerated_AnyTitle(title, article) == title # Absent /\ title # <<>>

\* title && title !== article.title
slugIsRegenerated(title, article) ==
  title # Absent /\ title # <<>> /\ title # article.title

\* payload = {...rest, title, ...(cond && {slug: this.slugify(title)})}
updatePayload(title, article, randomValues) ==
  IF slugIsRegenerated(title, article)
    THEN [title |-> title, slug |-> slugify(title, randomValues)]
    ELSE [title |-> title]

\* articleRepository.update(article, payload): the fields the payload
\* defines replace those of the row
updatedRow(row, payload) ==
  [row EXCEPT
     !.title = IF payload.title = Absent THEN @ ELSE payload.title,
     !.slug = IF "slug" \in DOMAIN payload THEN payload.slug ELSE @]

update(id, title) ==
  LET article == findById(id)
  IN  IF article = Null
        THEN /\ last' = [op |-> "update", id |-> id, title |-> title,
                         outcome |-> "NotFound"]
             /\ UNCHANGED articleRows
        ELSE \E randomValues \in RandomDraws :
               LET payload == updatePayload(title, article, randomValues)
               IN  /\ articleRows' = (articleRows \ {article})
                                       \cup {updatedRow(article, payload)}
                   /\ last' = [op |-> "update", id |-> id, title |-> title,
                               payload |-> payload, outcome |-> "ok"]

Update(id, title) ==
  /\ update(id, title)
  /\ UNCHANGED <<tagRows, commentRows, nextTagId, nextArticleId,
                 nextCommentId, creates, cr>>

\* remove(id): return this.articleRepository.remove(id)
remove(id) ==
  /\ articleRows' = {a \in articleRows : a.id # id}
  /\ last' = [op |-> "remove", id |-> id]
  /\ UNCHANGED <<tagRows, commentRows, nextTagId, nextArticleId,
                 nextCommentId, creates, cr>>

(***************************************************************************)
(* CommentsService and the comment operations of ArticlesService           *)
(***************************************************************************)
\* commentRepository.findById(id), the author relation loaded
findCommentById(id) ==
  IF \E k \in commentRows : k.id = id
    THEN CHOOSE k \in commentRows : k.id = id
    ELSE Null

\* CommentsService.create(article_id, body, userJwtPayload)
commentRow(article_id, userJwtPayload) ==
  [id |-> nextCommentId, article_id |-> article_id,
   author_id |-> userJwtPayload.id]

\* ArticlesService.createComment(slug, body, userJwtPayload)
createComment(slug, userJwtPayload) ==
  /\ nextCommentId <= MaxComments
  /\ \E article \in findBySlug(slug) :
       IF article = Null
         THEN /\ last' = [op |-> "createComment", slug |-> slug,
                          outcome |-> "NotFound"]
              /\ UNCHANGED <<commentRows, nextCommentId>>
         ELSE LET comment == commentRow(article.id, userJwtPayload)
              IN  /\ commentRows' = commentRows \cup {comment}
                  /\ nextCommentId' = nextCommentId + 1
                  /\ last' = [op |-> "createComment", slug |-> slug,
                              outcome |-> "created", comment |-> comment]
  /\ UNCHANGED <<tagRows, articleRows, nextTagId, nextArticleId, creates, cr>>

\* CommentsService.validateAndFetchComment(id)
validateAndFetchCommentResult(id) ==
  IF findCommentById(id) = Null THEN "NotFound" ELSE "comment"

validateAndFetchComment(id) ==
  /\ last' = [op |-> "validateAndFetchComment", id |-> id,
              outcome |-> validateAndFetchCommentResult(id)]
  /\ UNCHANGED <<tagRows, articleRows, commentRows, nextTagId, nextArticleId,
                 nextCommentId, creates, cr>>

\* the author check left out
isNotAuthor_Never(comment, userJwtPayload) == FALSE

\* comment?.author?.id !== userJwtPayload.id
isNotAuthor(comment, userJwtPayload) == comment.author_id # userJwtPayload.id

\* CommentsService.remove(id, userJwtPayload): the outcome and the table after
commentsRemove(id, userJwtPayload) ==
  LET comment == findCommentById(id)
  IN  IF comment = Null
        THEN [outcome |-> "NotFound", rows |-> commentRows]
      ELSE IF isNotAuthor(comment, userJwtPayload)
        THEN [outcome |-> "Unauthorized", rows |-> commentRows]
        ELSE [outcome |-> "removed",
              rows |-> {k \in commentRows : k.id # id}]

RemoveCommentDirect(id, userJwtPayload) ==
  /\ LET r == commentsRemove(id, userJwtPayload)
     IN  /\ commentRows' = r.rows
         /\ last' = [op |-> "CommentsService.remove", id |-> id,
                     actor |-> userJwtPayload.id, outcome |-> r.outcome]
  /\ UNCHANGED <<tagRows, articleRows, nextTagId, nextArticleId,
                 nextCommentId, creates, cr>>

\* ArticlesService.removeComment(id, slug, userJwtPayload):
\* await validateArticle(slug); return await commentsService.remove(id, user)
removeComment(id, slug, userJwtPayload) ==
  /\ \E article \in findBySlug(slug) :
       IF article = Null
         THEN /\ last' = [op |-> "removeComment", id |-> id, slug |-> slug,
                          actor |-> userJwtPayload.id, outcome |-> "NotFound"]
              /\ UNCHANGED commentRows
         ELSE LET r == commentsRemove(id, userJwtPayload)
              IN  /\ commentRows' = r.rows
                  /\ last' = [op |-> "removeComment", id |-> id,
                              slug |-> slug, actor |-> userJwtPayload.id,
                              outcome |-> r.outcome]
  /\ UNCHANGED <<tagRows, articleRows, nextTagId, nextArticleId,
                 nextCommentId, creates, cr>>

JwtPayloads == [id : Users]

\* the steps of the create calls of the clients in cs
CreateSteps(cs, dtos, users, draws) ==
  \/ \E c \in cs, dto \in dtos, user \in users : create(c, dto, user)
  \/ \E c \in cs : FindTags(c)
  \/ \E c \in cs : CreateTags(c)
  \/ \E c \in cs, randomValues \in draws : PersistArticle(c, randomValues)
  \/ \E c \in cs : RefetchAndCommit(c)
  \/ \E c \in cs : FailCreate(c)

\* the steps of create calls that give no tags
CreateStepsNoTags(cs, titles, users, draws) ==
  \/ \E c \in cs, title \in titles, user \in users :
       create(c, [title |-> title, tagList |-> <<>>], user)
  \/ \E c \in cs, randomValues \in draws : PersistArticle(c, randomValues)
  \/ \E c \in cs : RefetchAndCommit(c)
  \/ \E c \in cs : FailCreate(c)

\* the author, the title and the slug play no part in the tags of an article
OneTitle == {<<"G", "o">>}

OneUser == [id : {1}]

OneDraw == {[i \in 1 .. SuffixLength |-> 64]}

\* concurrent create calls with every tagList
Next ==
  CreateSteps(Clients, [title : OneTitle, tagList : TagLists], OneUser, OneDraw)

Spec == Init /\ [][Next]_vars

\* one client creating articles, and the other article operations
NextArticles ==
  \/ CreateStepsNoTags({"c1"}, ArticleTitles, OneUser, RandomDraws)
  \/ \E id \in ArticleIds : findOne(id)
  \/ \E slug \in SlugInputs : validateAndFetchArticleBySlug(slug)
  \/ \E id \in ArticleIds, title \in UpdateTitles : Update(id, title)
  \/ \E id \in ArticleIds : remove(id)

SpecArticles == Init /\ [][NextArticles]_vars

\* one client creating articles without tags, and the comment operations
NextComments ==
  \/ CreateStepsNoTags({"c1"}, OneTitle, OneUser, RandomDraws)
  \/ \E slug \in SlugInputs, user \in JwtPayloads : createComment(slug, user)
  \/ \E id \in CommentIds : validateAndFetchComment(id)
  \/ \E id \in CommentIds, user \in JwtPayloads : RemoveCommentDirect(id, user)
  \/ \E id \in CommentIds, slug \in SlugInputs, user \in JwtPayloads :
       removeComment(id, slug, user)
  \/ \E id \in ArticleIds : remove(id)

SpecComments == Init /\ [][NextComments]_vars

(***************************************************************************)
(* slugify on its own: one call on a title and the bytes drawn for it      *)
(***************************************************************************)
TitleChars == {"A", "b", "1", " ", "-", "!", "_", "&"}

TitleInputs == SeqsUpTo(TitleChars, MaxTitleLen)

\* byte arrays in which every byte value occurs
RandomArrays ==
  {[i \in 1 .. SuffixLength |-> (4 * b + i - 1) % 256] : b \in 0 .. 63}

\* the result of slugify(title) when crypto.getRandomValues gives randomValues
slugifyResult(title, randomValues) ==
  [op |-> "slugify", title |-> title, randomValues |-> randomValues,
   slug |-> slugify(title, randomValues)]

\* a title is given
InitSlug ==
  /\ tagRows = {}
  /\ articleRows = {}
  /\ commentRows = {}
  /\ nextTagId = 1
  /\ nextArticleId = 1
  /\ nextCommentId = 1
  /\ creates = 0
  /\ cr = [c \in Clients |-> IdleCall]
  /\ last \in {[op |-> "title", title |-> title] : title \in TitleInputs}

SlugifyCall ==
  /\ last.op = "title"
  /\ \E randomValues \in RandomArrays :
       last' = slugifyResult(last.title, randomValues)
  /\ UNCHANGED <<tagRows, articleRows, commentRows, nextTagId, nextArticleId,
                 nextCommentId, creates, cr>>

NextSlug == SlugifyCall

SpecSlug == InitSlug /\ [][NextSlug]_vars

(***************************************************************************)
(* Properties                                                              *)
(***************************************************************************)
RowsWithId(rows, id) == {r \in rows : r.id = id}

\* the step in which the create call of c commits
Commits(c) == cr[c].pc = "refetch" /\ cr'[c].pc = "done"

\* C1: a create call that failed inside its transaction leaves no tag row
\* and no article row of its own in the tables: the tags createMany returned
\* to it and the article articleRepository.create returned to it are gone.
\* No step of a create call changes the tag table or the article table
\* except the step in which the call commits, so a call that fails leaves
\* both tables as they were.
C1_FailedCreateLeavesNothing ==
  /\ [](\A c \in Clients :
          cr[c].pc = "failed" =>
            /\ Range(cr[c].newTags) \cap tagRows = {}
            /\ \A i \in DOMAIN cr[c].newTags :
                 RowsWithId(tagRows, cr[c].newTags[i].id) = {}
            /\ RowsWithId(articleRows, cr[c].article.id) = {})
  /\ [][(tagRows' # tagRows \/ articleRows' # articleRows)
          => \E c \in Clients : Commits(c)]_vars

\* a call that failed after createMany had created tags and before the
\* article was persisted
C1_Witness ==
  \E c \in Clients :
    /\ cr[c].pc = "failed"
    /\ cr[c].newTags # <<>>
    /\ cr[c].article = Null

\* C2: the article a create call returns is in the article table and its
\* tagList holds exactly one Tag row per distinct requested name, each a row
\* of the tag table, and nothing else; the call created at most one tag row
\* per distinct name.
C2_OneTagPerRequestedName ==
  \A c \in Clients :
    cr[c].pc = "done" =>
      LET tagList == cr[c].article.tagList
          requested == Range(cr[c].dto.tagList)
          newTags == cr[c].newTags
      IN  /\ cr[c].article \in articleRows
          /\ \A n \in requested :
               Cardinality({i \in DOMAIN tagList : tagList[i].name = n}) = 1
          /\ \A i \in DOMAIN tagList :
               tagList[i].name \in requested /\ tagList[i] \in tagRows
          /\ \A i, j \in DOMAIN newTags :
               newTags[i].name = newTags[j].name => i = j

\* a finished call whose tagList named a tag twice, one tag found and one
\* created
C2_Witness ==
  \E c \in Clients :
    /\ cr[c].pc = "done"
    /\ Len(cr[c].dto.tagList) > Cardinality(Range(cr[c].dto.tagList))
    /\ Len(cr[c].article.tagList) = 1

\* C3: the tag table changes only when a create call commits, and then it
\* gains one row for every distinct requested name that no row had, and
\* nothing else: the rows it had stay as they were, and the rows of the
\* requested names that existed are the ones attached to the article.
C3_CreatesExactlyTheMissingTags ==
  [][/\ tagRows' # tagRows => \E c \in Clients : Commits(c)
     /\ \A c \in Clients :
          Commits(c) =>
            LET requested == Range(cr[c].dto.tagList)
                created == tagRows' \ tagRows
            IN  /\ tagRows \subseteq tagRows'
                /\ Names(created) = requested \ Names(tagRows)
                /\ Cardinality(created) = Cardinality(Names(created))
                /\ \A t \in tagRows :
                     t.name \in requested =>
                       t \in Range(cr'[c].article.tagList)]_vars

\* a finished call that reused one existing tag and created one new tag
C3_Witness ==
  \E c \in Clients :
    /\ cr[c].pc = "done"
    /\ Len(cr[c].newTags) = 1
    /\ Len(cr[c].tags) = 2
    /\ cr[c].tags[1] # cr[c].newTags[1]

\* C4: no two rows of the tag table have the same name.
C4_TagNameUnique ==
  \A t1, t2 \in tagRows : t1.name = t2.name => t1 = t2

\* a call about to insert a name it did not find, which another call has
\* committed since
C4_Witness ==
  \E c \in Clients :
    /\ cr[c].pc = "createMany"
    /\ Range(cr[c].newTagNames) \cap Names(tagRows) # {}

\* C5: no two articles have the same slug.
C5_SlugUnique ==
  \A a, b \in articleRows : a.slug = b.slug => a = b

\* the step in which a call of op returns
Returns(op) == last' # last /\ last'.op = op

\* C6: an update of an existing article puts a slug in its payload only if
\* a title is given and differs from the article's title; with no title, or
\* with the article's title, the payload has no slug and the article keeps
\* its slug.
C6_SlugRegeneratedOnlyOnTitleChange ==
  [][(Returns("update") /\ last'.outcome = "ok") =>
       LET title == last'.title
           old == CHOOSE a \in articleRows : a.id = last'.id
           new == CHOOSE a \in articleRows' : a.id = last'.id
       IN  /\ "slug" \in DOMAIN last'.payload =>
                title # Absent /\ title # old.title
           /\ (title = Absent \/ title = old.title) =>
                /\ "slug" \notin DOMAIN last'.payload
                /\ new.slug = old.slug]_vars

\* an update that gave the article's own title
C6_Witness ==
  /\ last.op = "update"
  /\ last.outcome = "ok"
  /\ last.title # Absent
  /\ "slug" \notin DOMAIN last.payload

C8_NotFoundWhenAbsent ==
  [][/\ Returns("findOne") =>
          (RowsWithId(articleRows, last'.id) = {}
             => last'.outcome = "NotFound")
     /\ Returns("validateAndFetchArticleBySlug") =>
          ((\A a \in articleRows : a.slug # last'.slug)
             => last'.outcome = "NotFound")]_vars

IsSlugChar(ch) == IsLowerAlnum(ch) \/ ch = Replacement

\* C9 as stated: every character of the slug is a lower-case alphanumeric
\* or the separator, and the last 11 are symbols of the alphabet.
C9_WholeSlugLowerCase ==
  last.op = "slugify" =>
    LET slug == last.slug
        n == Len(slug)
    IN  /\ n >= SuffixLength
        /\ \A i \in 1 .. n : IsSlugChar(slug[i])
        /\ \A i \in (n - SuffixLength + 1) .. n : slug[i] \in Range(charset)

\* C9, amended: the slug is a base of lower-case alphanumerics and
\* separators, then the separator, then 11 symbols of the 64-symbol
\* alphabet, the i-th being the symbol at index (byte i & 63), an index in
\* 0..63; the alphabet holds upper-case letters and "_" as well.
C9_BaseLowerCaseSuffixFromAlphabet ==
  last.op = "slugify" =>
    LET slug == last.slug
        n == Len(slug)
        base == n - SuffixLength - 1
    IN  /\ base >= 0
        /\ Len(charset) = 64
        /\ \A i \in 1 .. base : IsSlugChar(slug[i])
        /\ slug[base + 1] = "-"
        /\ \A i \in 1 .. SuffixLength :
             LET index == charsetIndex(last.randomValues[i])
             IN  /\ index \in 0 .. 63
                 /\ slug[base + 1 + i] = charset[index + 1]

\* a title with an upper-case letter, a space and punctuation, and a suffix
\* with "_"
C9_Witness ==
  /\ last.op = "slugify"
  /\ last.title = <<"A", " ", "!">>
  /\ SubSeq(last.slug, 1, 2) = <<"a", "-">>
  /\ \E i \in DOMAIN last.slug : IsUpper(last.slug[i])
  /\ "_" \in Range(SubSeq(last.slug, Len(last.slug) - SuffixLength + 1,
                          Len(last.slug)))

\* C10: removeComment removes a comment only if its slug resolves to an
\* article and the comment belongs to that article.
C10_RemoveCommentScopedToArticle ==
  [][\A k \in commentRows \ commentRows' :
       last'.op = "removeComment" =>
         \E a \in articleRows : a.slug = last'.slug /\ k.article_id = a.id]_vars

=============================================================================
